---- MODULE Spec2Model ----
(***************************************************************************)
(* Reading List Manager: the Express backend as a state machine.          *)
(*                                                                         *)
(* State: the two SQLite tables (users, books), the express-session store, *)
(* the wall clock that CURRENT_TIMESTAMP reads, and the last request with  *)
(* the response it received.  One action per route handler; a handler's    *)
(* awaits are run to completion inside its action.                         *)
(*                                                                         *)
(* Strings are sequences of one-character strings, so that length, trim    *)
(* and the regular expressions of the validators are computed.             *)
(***************************************************************************)
EXTENDS Integers, Sequences, FiniteSets, TLC

(***************************************************************************)
(* Bounds of the model.                                                    *)
(***************************************************************************)
MaxSessions == 2
MaxBooks == 1
MaxRows == 2
MaxShelf == 2
MaxTitles == 11
MaxCopies == 2
MaxClock == 1
MaxFlights == 2

(***************************************************************************)
(* Characters and the character classes of the regular expressions.        *)
(***************************************************************************)
LowerChars ==
    {"a","b","c","d","e","f","g","h","i","j","k","l","m",
     "n","o","p","q","r","s","t","u","v","w","x","y","z"}

UpperChars ==
    {"A","B","C","D","E","F","G","H","I","J","K","L","M",
     "N","O","P","Q","R","S","T","U","V","W","X","Y","Z"}

DigitChars == {"0","1","2","3","4","5","6","7","8","9"}

SymbolChars ==
    {"!","@","#","$","%","^","&","*","(",")",",",".","?","\"",":","{","}","|","<",">"}

LineTerminators == {"\n", "\r"}

UsernameChars == LowerChars \cup UpperChars \cup DigitChars \cup {"_", "-"}

HasChar(s, class) == \E i \in 1..Len(s) : s[i] \in class

\* (?=.*[class]) anchored at the start: `.' does not cross a line terminator
LookaheadHas(s, class) ==
    \E i \in 1..Len(s) :
        /\ s[i] \in class
        /\ \A j \in 1..(i-1) : s[j] \notin LineTerminators

(***************************************************************************)
(* Request inputs.                                                         *)
(***************************************************************************)
ali == <<"a","l","i">>
bob == <<"b","o","b">>

\* usernames: a valid one, one too short, one with a character outside the
\* class, one that breaks both rules
UsernameInputs ==
    { ali,
      <<"a","l">>,
      <<"a"," ","b">>,
      <<"!">> }

ClassRepr == <<"a", "B", "1", "!">>

ClassSets == SUBSET (1..4)

\* a password of length n made of exactly the character classes in S
PasswordOf(S, n) ==
    LET base == IF S = {} THEN <<"_">>
                ELSE SelectSeq(ClassRepr,
                        LAMBDA c : \E k \in S : ClassRepr[k] = c)
    IN  [i \in 1..n |-> base[((i - 1) % Len(base)) + 1]]

PasswordInputs ==
    { PasswordOf(S, n) : S \in ClassSets, n \in {5, 6} } \cup { <<>> }

StrongPassword == PasswordOf(1..4, 6)
OtherPassword == PasswordOf({1, 2, 3}, 6)

(***************************************************************************)
(* bcrypt: a salted one-way hash.  The digest is opaque; compare recomputes *)
(* it from the candidate password and the stored salt.                      *)
(***************************************************************************)
saltRounds == 12

Salts == {1}

Digest(password, salt, rounds) == <<"$2a$", rounds, salt, password>>

bcryptHash(password, salt) ==
    [alg |-> "bcrypt", rounds |-> saltRounds, salt |-> salt,
     digest |-> Digest(password, salt, saltRounds)]

\* a variant of bcryptCompare that accepts every password
bcryptCompareAny(password, hash) == TRUE

bcryptCompare(password, hash) ==
    Digest(password, hash.salt, hash.rounds) = hash.digest

(***************************************************************************)
(* Variables.                                                              *)
(***************************************************************************)
VARIABLES
    users,      \* table users: sequence of rows, row i has id i (AUTOINCREMENT, no delete)
    books,      \* table books: set of rows
    bookSeq,    \* sqlite_sequence of books: the largest id ever assigned
    sessions,   \* session store: sequence indexed by session id
    clock,      \* CURRENT_TIMESTAMP, in seconds
    last,       \* the last request and its response
    flight      \* the requests being served: each slot holds the handler's
                \* position between two awaits and its local values

vars == <<users, books, bookSeq, sessions, clock, last, flight>>

(***************************************************************************)
(* express-session (server.js): the store keeps saved sessions by id.  A   *)
(* request whose cookie names no live session runs with a fresh session;   *)
(* saveUninitialized: false keeps it out of the store unless the handler   *)
(* writes to it.                                                           *)
(***************************************************************************)
NoCookie == 0

EmptySession == [live |-> FALSE, userId |-> 0, username |-> <<>>]

Cookies == 0..Len(sessions)

IsLive(c) == c \in 1..Len(sessions) /\ sessions[c].live

\* req.session as the handler sees it
ReqSession(c) == IF IsLive(c) THEN sessions[c] ELSE EmptySession

\* the session id the request runs with once the handler has written to it
SidFor(c) == IF IsLive(c) THEN c ELSE Len(sessions) + 1

CanSave(c) == IsLive(c) \/ Len(sessions) < MaxSessions

\* a variant of SaveSession that stores the session without the account
SaveSessionEmpty(c, userId, username) ==
    LET data == [live |-> TRUE, userId |-> 0, username |-> <<>>]
    IN  IF IsLive(c) THEN [sessions EXCEPT ![c] = data]
        ELSE Append(sessions, data)

\* req.session.userId = userId; req.session.username = username; saved at end
SaveSession(c, userId, username) ==
    LET data == [live |-> TRUE, userId |-> userId, username |-> username]
    IN  IF IsLive(c) THEN [sessions EXCEPT ![c] = data]
        ELSE Append(sessions, data)

\* a variant of DestroySession that leaves the store as it is
DestroySessionKept(c) == sessions

\* req.session.destroy(): the store forgets the session id
DestroySession(c) ==
    IF IsLive(c) THEN [sessions EXCEPT ![c] = EmptySession] ELSE sessions

(***************************************************************************)
(* Requests in flight.  A handler runs from one await to the next without  *)
(* interruption (one event loop); between two awaits the handlers of other *)
(* requests run.  A slot holds one request being served: the handler's      *)
(* position, the session object loaded for it when it arrived, and the     *)
(* handler's local values.                                                  *)
(***************************************************************************)
Slots == 1..MaxFlights

Flight(op, pc, c, session, req, loc) ==
    [op |-> op, pc |-> pc, cookie |-> c, session |-> session, req |-> req, loc |-> loc]

Idle == Flight("idle", "idle", 0, EmptySession, <<>>, <<>>)

NoFlights == [s \in Slots |-> Idle]

\* an arriving request takes the first free slot
FreeSlot(s) == flight[s] = Idle /\ \A t \in 1..(s - 1) : flight[t] # Idle

(***************************************************************************)
(* utils/db.js: users.                                                     *)
(***************************************************************************)
NoUser == [id |-> 0, username |-> <<>>, password_hash |-> bcryptHash(<<>>, 0), created_at |-> 0]

\* a variant of findUserByUsername that finds nobody
findUserByUsernameNobody(username) == NoUser

findUserByUsername(username) ==
    IF \E i \in 1..Len(users) : users[i].username = username
    THEN users[CHOOSE i \in 1..Len(users) : users[i].username = username]
    ELSE NoUser

findUserById(userId) ==
    IF userId \in 1..Len(users) THEN users[userId] ELSE NoUser

\* INSERT INTO users: the UNIQUE constraint on username rejects a duplicate
createUser(username, passwordHash) ==
    IF \E i \in 1..Len(users) : users[i].username = username
    THEN [ok |-> FALSE, id |-> 0, table |-> users]
    ELSE [ok |-> TRUE, id |-> Len(users) + 1,
          table |-> Append(users, [id |-> Len(users) + 1,
                                   username |-> username,
                                   password_hash |-> passwordHash,
                                   created_at |-> clock])]

(***************************************************************************)
(* routes/auth.js: validation chains.  Every validator of a chain runs, so  *)
(* errors.array() holds one entry per failed validator, in chain order.     *)
(***************************************************************************)
MsgUsernameLength == "Username must be between 3 and 30 characters"
MsgUsernameChars == "Username can only contain letters, numbers, underscores, and hyphens"
MsgPasswordLength == "Password must be at least 6 characters long"
MsgPasswordClasses == "Password must contain at least one lowercase letter, one uppercase letter, and one number"
MsgConfirm == "Password confirmation does not match password"
MsgUsernameRequired == "Username is required"
MsgPasswordRequired == "Password is required"

ErrIf(cond, param, msg) == IF cond THEN <<[param |-> param, msg |-> msg]>> ELSE <<>>

registerValidation(body) ==
       ErrIf(~(Len(body.username) >= 3 /\ Len(body.username) <= 30),
             "username", MsgUsernameLength)
    \o ErrIf(~(Len(body.username) >= 1
               /\ \A i \in 1..Len(body.username) : body.username[i] \in UsernameChars),
             "username", MsgUsernameChars)
    \o ErrIf(~(Len(body.password) >= 6), "password", MsgPasswordLength)
    \o ErrIf(~(/\ LookaheadHas(body.password, LowerChars)
               /\ LookaheadHas(body.password, UpperChars)
               /\ LookaheadHas(body.password, DigitChars)),
             "password", MsgPasswordClasses)
    \o ErrIf(body.confirmPassword # body.password, "confirmPassword", MsgConfirm)

loginValidation(body) ==
       ErrIf(Len(body.username) = 0, "username", MsgUsernameRequired)
    \o ErrIf(Len(body.password) = 0, "password", MsgPasswordRequired)

checkPasswordStrength(password) ==
    LET requirements ==
            [length |-> Len(password) >= 6,
             hasLowercase |-> HasChar(password, LowerChars),
             hasUppercase |-> HasChar(password, UpperChars),
             hasNumber |-> HasChar(password, DigitChars),
             hasSymbol |-> HasChar(password, SymbolChars)]
    IN  [isStrong |-> \A k \in DOMAIN requirements : requirements[k],
         requirements |-> requirements]

(***************************************************************************)
(* Responses.                                                              *)
(***************************************************************************)
Resp(status, text, payload) == [status |-> status, text |-> text, payload |-> payload]

NoPayload == <<>>

UserPayload(id, username) == [id |-> id, username |-> username]

\* a line written to the console: its label and the text values it prints
LogEntry(text, values) == [text |-> text, values |-> values]

\* the last request: who asked, what was asked, the response, the lines the
\* handler wrote to the console while serving it, and how many times the
\* handler sent a response
Record(op, c, sid, req, resp) ==
    [op |-> op, cookie |-> c, sid |-> sid, user |-> ReqSession(c).userId,
     req |-> req, resp |-> resp, log |-> <<>>, sent |-> 1]

Logged(record, entries) == [record EXCEPT !.log = entries]

\* console.log('Validation errors:', errors.array()): every entry of
\* errors.array() carries the value of the field that failed
LogValidationErrors(errors, body) ==
    LogEntry("Validation errors:", {body[errors[i].param] : i \in DOMAIN errors})

\* console.log('Incoming register payload:', req.body)
LogPayload(body) ==
    LogEntry("Incoming register payload:",
             {body.username, body.password, body.confirmPassword})

\* console.log('Password strength check:', { isStrong, requirements }): flags only
LogStrength == LogEntry("Password strength check:", {})

(***************************************************************************)
(* middleware/auth.js: requireAuth as it stands in the source, a           *)
(* placeholder that answers 501 to every request.                          *)
(***************************************************************************)
requireAuth(c) ==
    [next |-> FALSE,
     resp |-> Resp(501, "Authentication middleware not implemented yet", NoPayload)]

\* the gate the placeholder documents: 401 without a session account id, next() with one
requireAuthDocumented(c) ==
    IF ReqSession(c).userId = 0
    THEN [next |-> FALSE, resp |-> Resp(401, "Authentication required", NoPayload)]
    ELSE [next |-> TRUE, resp |-> Resp(200, "", NoPayload)]

(***************************************************************************)
(* routes/auth.js: POST /register                                          *)
(***************************************************************************)
Register(c, body) ==
    LET errors == registerValidation(body)
        strength == checkPasswordStrength(body.password)
        existingUser == findUserByUsername(body.username)
    IN
    IF errors # <<>> THEN
        /\ last' = Logged(Record("register", c, 0, body,
                                 Resp(400, "Validation failed", errors)),
                          <<LogValidationErrors(errors, body)>>)
        /\ UNCHANGED <<users, books, bookSeq, sessions, clock, flight>>
    ELSE IF ~strength.isStrong THEN
        /\ last' = Logged(Record("register", c, 0, body,
                                 Resp(400, "Password is too weak", strength.requirements)),
                          <<LogPayload(body), LogStrength>>)
        /\ UNCHANGED <<users, books, bookSeq, sessions, clock, flight>>
    ELSE IF existingUser.id # 0 THEN
        /\ last' = Logged(Record("register", c, 0, body,
                                 Resp(409, "Username already exists", NoPayload)),
                          <<LogPayload(body), LogStrength>>)
        /\ UNCHANGED <<users, books, bookSeq, sessions, clock, flight>>
    ELSE
        /\ CanSave(c)
        /\ \E salt \in Salts :
            LET created == createUser(body.username, bcryptHash(body.password, salt))
            IN  IF ~created.ok THEN
                    /\ last' = Logged(Record("register", c, 0, body,
                                             Resp(500, "Internal server error during registration", NoPayload)),
                                      <<LogPayload(body), LogStrength,
                                        LogEntry("Registration error:", {})>>)
                    /\ UNCHANGED <<users, sessions>>
                ELSE
                    /\ users' = created.table
                    /\ sessions' = SaveSession(c, created.id, body.username)
                    /\ last' = Logged(Record("register", c, SidFor(c), body,
                                             Resp(201, "User registered successfully",
                                                  UserPayload(created.id, body.username))),
                                      <<LogPayload(body), LogStrength>>)
        /\ UNCHANGED <<books, bookSeq, clock, flight>>

(***************************************************************************)
(* routes/auth.js: POST /login                                             *)
(***************************************************************************)
Login(c, body) ==
    LET errors == loginValidation(body)
        user == findUserByUsername(body.username)
    IN
    IF errors # <<>> THEN
        /\ last' = Record("login", c, 0, body, Resp(400, "Validation failed", errors))
        /\ UNCHANGED <<users, books, bookSeq, sessions, clock, flight>>
    ELSE IF user.id = 0 THEN
        /\ last' = Record("login", c, 0, body,
                          Resp(401, "Invalid username or password", NoPayload))
        /\ UNCHANGED <<users, books, bookSeq, sessions, clock, flight>>
    ELSE IF ~bcryptCompare(body.password, user.password_hash) THEN
        /\ last' = Record("login", c, 0, body,
                          Resp(401, "Invalid username or password", NoPayload))
        /\ UNCHANGED <<users, books, bookSeq, sessions, clock, flight>>
    ELSE
        /\ CanSave(c)
        /\ sessions' = SaveSession(c, user.id, user.username)
        /\ last' = Record("login", c, SidFor(c), body,
                          Resp(200, "Login successful", UserPayload(user.id, user.username)))
        /\ UNCHANGED <<users, books, bookSeq, clock, flight>>

(***************************************************************************)
(* routes/auth.js: POST /logout                                            *)
(***************************************************************************)
\* req.session.destroy(callback) is started, the handler answers 200
\* 'Logout successful', and the callback runs afterwards: with an error it
\* sends 500 'Failed to logout' on the response that was already sent.  err
\* is what the store reports; a store that fails keeps the session.
LogoutOn(c, err) ==
    /\ sessions' = IF err THEN sessions ELSE DestroySession(c)
    /\ last' = [Record("logout", c, 0, NoPayload,
                       Resp(200, "Logout successful", NoPayload))
                   EXCEPT !.sent = IF err THEN 2 ELSE 1]
    /\ UNCHANGED <<users, books, bookSeq, clock, flight>>

\* with the default MemoryStore of express-session, whose destroy reports no error
Logout(c) == LogoutOn(c, FALSE)

(***************************************************************************)
(* routes/auth.js: GET /status                                             *)
(***************************************************************************)
StatusBody(c) ==
    LET isAuthenticated == ReqSession(c).userId # 0
    IN  [authenticated |-> isAuthenticated,
         user |-> IF isAuthenticated
                  THEN UserPayload(ReqSession(c).userId, ReqSession(c).username)
                  ELSE UserPayload(0, <<>>)]

Status(c) ==
    /\ last' = Record("status", c, 0, NoPayload, Resp(200, "", StatusBody(c)))
    /\ UNCHANGED <<users, books, bookSeq, sessions, clock, flight>>

(***************************************************************************)
(* routes/auth.js: GET /me, behind the gate                                *)
(***************************************************************************)
Me(gate, c) ==
    LET user == findUserById(ReqSession(c).userId)
    IN
    /\ last' = Record("me", c, 0, NoPayload,
                 IF ~gate.next THEN gate.resp
                 ELSE IF user.id = 0 THEN Resp(404, "User not found", NoPayload)
                 ELSE Resp(200, "", [id |-> user.id, username |-> user.username,
                                     created_at |-> user.created_at]))
    /\ UNCHANGED <<users, books, bookSeq, sessions, clock, flight>>

(***************************************************************************)
(* JavaScript and SQL values of the book fields.  A text value is a         *)
(* sequence of characters; null and undefined are values no text equals.    *)
(***************************************************************************)
Null == <<"NULL">>

Undefined == <<"undefined">>

\* the values JavaScript treats as true in `v || d' and `v ? a : b'
Truthy(v) == v \notin {Null, Undefined, <<>>}

OrElse(v, d) == IF Truthy(v) THEN v ELSE d

Whitespace == {" ", "\t", "\n", "\r"}

RECURSIVE trimStart(_)
trimStart(s) ==
    IF s # <<>> /\ Head(s) \in Whitespace THEN trimStart(Tail(s)) ELSE s

RECURSIVE trimEnd(_)
trimEnd(s) ==
    IF s # <<>> /\ s[Len(s)] \in Whitespace
    THEN trimEnd(SubSeq(s, 1, Len(s) - 1))
    ELSE s

\* String.prototype.trim: white space is dropped from both ends
trim(s) == trimEnd(trimStart(s))

StatusToRead == <<"t","o","-","r","e","a","d">>
StatusReading == <<"r","e","a","d","i","n","g">>
StatusRead == <<"r","e","a","d">>

StatusValues == {StatusToRead, StatusReading, StatusRead}

(***************************************************************************)
(* utils/db.js: books.                                                     *)
(***************************************************************************)
NoBook ==
    [id |-> 0, title |-> Null, author |-> Null, genre |-> Null, status |-> Null,
     notes |-> Null, user_id |-> 0, created_at |-> 0, updated_at |-> 0]

\* a parameter that is undefined is bound as NULL
Bind(v) == IF v = Undefined THEN Null ELSE v

\* the constraints of table books: title NOT NULL, user_id NOT NULL,
\* CHECK(status IN ('to-read', 'reading', 'read')), which a NULL status passes
BookRowAllowed(row) ==
    /\ row.title # Null
    /\ row.user_id # 0
    /\ row.status = Null \/ row.status \in StatusValues

getBookById(bookId) ==
    IF \E b \in books : b.id = bookId
    THEN CHOOSE b \in books : b.id = bookId
    ELSE NoBook

\* a variant of createBook whose INSERT leaves the notes column out
createBookNoNotes(bookData) ==
    LET row == [id |-> bookSeq + 1,
                title |-> Bind(bookData.title),
                author |-> OrElse(bookData.author, Null),
                genre |-> OrElse(bookData.genre, Null),
                status |-> OrElse(bookData.status, StatusToRead),
                notes |-> Null,
                user_id |-> bookData.user_id,
                created_at |-> clock,
                updated_at |-> clock]
    IN  IF ~Truthy(bookData.title) \/ bookData.user_id = 0 \/ ~BookRowAllowed(row)
        THEN [ok |-> FALSE, book |-> NoBook, table |-> books, seq |-> bookSeq]
        ELSE [ok |-> TRUE, book |-> row, table |-> books \cup {row}, seq |-> bookSeq + 1]

\* a variant of createBook for a table without AUTOINCREMENT: the new id is
\* one more than the largest id in the table
createBookReusingIds(bookData) ==
    LET ids == {b.id : b \in books} \cup {0}
        row == [id |-> (CHOOSE i \in ids : \A j \in ids : i >= j) + 1,
                title |-> Bind(bookData.title),
                author |-> OrElse(bookData.author, Null),
                genre |-> OrElse(bookData.genre, Null),
                status |-> OrElse(bookData.status, StatusToRead),
                notes |-> OrElse(bookData.notes, Null),
                user_id |-> bookData.user_id,
                created_at |-> clock,
                updated_at |-> clock]
    IN  IF ~Truthy(bookData.title) \/ bookData.user_id = 0 \/ ~BookRowAllowed(row)
        THEN [ok |-> FALSE, book |-> NoBook, table |-> books, seq |-> bookSeq]
        ELSE [ok |-> TRUE, book |-> row, table |-> books \cup {row}, seq |-> bookSeq + 1]

\* a variant of createBook whose INSERT resolves before the row can be read
createBookUnseen(bookData) ==
    LET row == [id |-> bookSeq + 1,
                title |-> Bind(bookData.title),
                author |-> OrElse(bookData.author, Null),
                genre |-> OrElse(bookData.genre, Null),
                status |-> OrElse(bookData.status, StatusToRead),
                notes |-> OrElse(bookData.notes, Null),
                user_id |-> bookData.user_id,
                created_at |-> clock,
                updated_at |-> clock]
    IN  IF ~Truthy(bookData.title) \/ bookData.user_id = 0 \/ ~BookRowAllowed(row)
        THEN [ok |-> FALSE, book |-> NoBook, table |-> books, seq |-> bookSeq]
        ELSE [ok |-> TRUE, book |-> row, table |-> books, seq |-> bookSeq + 1]

\* a variant of createBook that tests for the missing fields after the INSERT
createBookCheckedLate(bookData) ==
    LET row == [id |-> bookSeq + 1,
                title |-> Bind(bookData.title),
                author |-> OrElse(bookData.author, Null),
                genre |-> OrElse(bookData.genre, Null),
                status |-> OrElse(bookData.status, StatusToRead),
                notes |-> OrElse(bookData.notes, Null),
                user_id |-> bookData.user_id,
                created_at |-> clock,
                updated_at |-> clock]
    IN  IF ~BookRowAllowed(row)
        THEN [ok |-> FALSE, book |-> NoBook, table |-> books, seq |-> bookSeq]
        ELSE IF ~Truthy(bookData.title) \/ bookData.user_id = 0
        THEN [ok |-> FALSE, book |-> NoBook, table |-> books \cup {row}, seq |-> bookSeq + 1]
        ELSE [ok |-> TRUE, book |-> row, table |-> books \cup {row}, seq |-> bookSeq + 1]

\* throws when title or user_id is missing or the INSERT is rejected;
\* otherwise inserts the row and returns it as read back
createBook(bookData) ==
    LET row == [id |-> bookSeq + 1,
                title |-> Bind(bookData.title),
                author |-> OrElse(bookData.author, Null),
                genre |-> OrElse(bookData.genre, Null),
                status |-> OrElse(bookData.status, StatusToRead),
                notes |-> OrElse(bookData.notes, Null),
                user_id |-> bookData.user_id,
                created_at |-> clock,
                updated_at |-> clock]
    IN  IF ~Truthy(bookData.title) \/ bookData.user_id = 0 \/ ~BookRowAllowed(row)
        THEN [ok |-> FALSE, book |-> NoBook, table |-> books, seq |-> bookSeq]
        ELSE [ok |-> TRUE, book |-> row, table |-> books \cup {row}, seq |-> bookSeq + 1]

\* a variant of updateBook whose SET clause also writes created_at
updateBookRestamped(bookId, updateData) ==
    LET set(b) == [b EXCEPT !.title = Bind(updateData.title),
                            !.author = Bind(updateData.author),
                            !.genre = Bind(updateData.genre),
                            !.status = Bind(updateData.status),
                            !.notes = Bind(updateData.notes),
                            !.created_at = clock,
                            !.updated_at = clock]
    IN  IF \E b \in books : b.id = bookId /\ ~BookRowAllowed(set(b))
        THEN [ok |-> FALSE, table |-> books]
        ELSE [ok |-> TRUE,
              table |-> {IF b.id = bookId THEN set(b) ELSE b : b \in books}]

\* UPDATE books SET title, author, genre, status, notes, updated_at WHERE id
updateBook(bookId, updateData) ==
    LET set(b) == [b EXCEPT !.title = Bind(updateData.title),
                            !.author = Bind(updateData.author),
                            !.genre = Bind(updateData.genre),
                            !.status = Bind(updateData.status),
                            !.notes = Bind(updateData.notes),
                            !.updated_at = clock]
    IN  IF \E b \in books : b.id = bookId /\ ~BookRowAllowed(set(b))
        THEN [ok |-> FALSE, table |-> books]
        ELSE [ok |-> TRUE,
              table |-> {IF b.id = bookId THEN set(b) ELSE b : b \in books}]

\* DELETE FROM books WHERE id
deleteBook(bookId) == {b \in books : b.id # bookId}

(***************************************************************************)
(* SQL text operators: LIKE (case-insensitive for ASCII letters, % and _    *)
(* wildcards), the BINARY collation order, and the row orders an ORDER BY   *)
(* admits (rows that tie come in any order).                                *)
(***************************************************************************)
LowerSeq ==
    <<"a","b","c","d","e","f","g","h","i","j","k","l","m",
      "n","o","p","q","r","s","t","u","v","w","x","y","z">>

UpperSeq ==
    <<"A","B","C","D","E","F","G","H","I","J","K","L","M",
      "N","O","P","Q","R","S","T","U","V","W","X","Y","Z">>

Fold(ch) ==
    IF ch \in UpperChars
    THEN LowerSeq[CHOOSE k \in 1..Len(UpperSeq) : UpperSeq[k] = ch]
    ELSE ch

RECURSIVE Like(_, _)
Like(pattern, text) ==
    IF pattern = <<>> THEN text = <<>>
    ELSE IF Head(pattern) = "%"
         THEN Like(Tail(pattern), text) \/ (text # <<>> /\ Like(pattern, Tail(text)))
    ELSE IF text = <<>> THEN FALSE
    ELSE IF Head(pattern) = "_" THEN Like(Tail(pattern), Tail(text))
    ELSE Fold(Head(pattern)) = Fold(Head(text)) /\ Like(Tail(pattern), Tail(text))

\* column LIKE '%' || search || '%'; NULL LIKE anything is not true
Contains(column, search) ==
    column # Null /\ Like(<<"%">> \o search \o <<"%">>, column)

\* printable ASCII characters in code order
Ascii ==
    <<" ","!","\"","#","$","%","&","'","(",")","*","+",",","-",".","/",
      "0","1","2","3","4","5","6","7","8","9",":",";","<","=",">","?","@",
      "A","B","C","D","E","F","G","H","I","J","K","L","M",
      "N","O","P","Q","R","S","T","U","V","W","X","Y","Z",
      "[","\\","]","^","_",
      "a","b","c","d","e","f","g","h","i","j","k","l","m",
      "n","o","p","q","r","s","t","u","v","w","x","y","z",
      "{","|","}","~">>

Code(ch) == CHOOSE k \in 1..Len(Ascii) : Ascii[k] = ch

\* s sorts strictly before t in the BINARY collation
RECURSIVE TextLess(_, _)
TextLess(s, t) ==
    IF t = <<>> THEN FALSE
    ELSE IF s = <<>> THEN TRUE
    ELSE IF Head(s) = Head(t) THEN TextLess(Tail(s), Tail(t))
    ELSE Code(Head(s)) < Code(Head(t))

\* the sequences that list the rows of S once each with no pair out of
\* order: a row that none of the others comes before, then the rest likewise
Orderings(S, Before(_, _)) ==
    LET ord[T \in SUBSET S] ==
            IF T = {} THEN {<<>>}
            ELSE UNION { {<<m>> \o rest : rest \in ord[T \ {m}]} :
                            m \in {x \in T : \A y \in T : ~Before(y, x)} }
    IN  ord[S]

\* LIMIT n
Limit(seq, n) == IF Len(seq) <= n THEN seq ELSE SubSeq(seq, 1, n)

(***************************************************************************)
(* utils/db.js: the list of one account's books.                           *)
(***************************************************************************)
NoFilters == [status |-> Undefined, genre |-> Undefined, search |-> Undefined]

ListedBook(b) ==
    [id |-> b.id, title |-> b.title, author |-> b.author, genre |-> b.genre,
     status |-> b.status, notes |-> b.notes,
     created_at |-> b.created_at, updated_at |-> b.updated_at]

\* a variant of getBooksByUserId without the WHERE user_id = ? clause
getBooksOfAll(userId, filters) ==
    LET Newer(a, b) == a.created_at > b.created_at
    IN  Orderings({ListedBook(b) : b \in books}, Newer)

\* the results the query may return: ORDER BY created_at DESC
getBooksByUserId(userId, filters) ==
    LET rows == {b \in books :
                    /\ b.user_id = userId
                    /\ Truthy(filters.status) => b.status = filters.status
                    /\ Truthy(filters.genre) => b.genre = filters.genre
                    /\ Truthy(filters.search) =>
                           \/ Contains(b.title, filters.search)
                           \/ Contains(b.author, filters.search)}
        Newer(a, b) == a.created_at > b.created_at
    IN  Orderings({ListedBook(b) : b \in rows}, Newer)

(***************************************************************************)
(* utils/db.js: public statistics and public search.  The tables read are   *)
(* parameters, so that the same query can be asked of two databases.  Each  *)
(* operator gives the set of results the query may return.                  *)
(***************************************************************************)
CountWhere(table, Test(_)) == Cardinality({b \in table : Test(b)})

\* a variant of popularBooks that counts per owner
popularBooksPerOwner(table) ==
    LET groups == {[title |-> b.title, author |-> b.author,
                    times_added |-> CountWhere(table,
                        LAMBDA x : /\ x.title = b.title
                                   /\ x.author = b.author
                                   /\ x.user_id = b.user_id)] : b \in table}
        Before(g, h) ==
            \/ g.times_added > h.times_added
            \/ g.times_added = h.times_added /\ TextLess(g.title, h.title)
    IN  {Limit(seq, 10) : seq \in Orderings(groups, Before)}

\* a variant of popularBooks that groups by title alone
popularBooksByTitle(table) ==
    LET groups == {[title |-> b.title,
                    author |-> (CHOOSE x \in table : x.title = b.title).author,
                    times_added |-> CountWhere(table,
                        LAMBDA x : x.title = b.title)] : b \in table}
        Before(g, h) ==
            \/ g.times_added > h.times_added
            \/ g.times_added = h.times_added /\ TextLess(g.title, h.title)
    IN  {Limit(seq, 10) : seq \in Orderings(groups, Before)}

popularBooks(table) ==
    LET groups == {[title |-> b.title, author |-> b.author,
                    times_added |-> CountWhere(table,
                        LAMBDA x : x.title = b.title /\ x.author = b.author)] : b \in table}
        Before(g, h) ==
            \/ g.times_added > h.times_added
            \/ g.times_added = h.times_added /\ TextLess(g.title, h.title)
    IN  {Limit(seq, 10) : seq \in Orderings(groups, Before)}

popularGenres(table) ==
    LET rows == {b \in table : b.genre # Null /\ b.genre # <<>>}
        groups == {[genre |-> b.genre,
                    count |-> CountWhere(rows, LAMBDA x : x.genre = b.genre)] : b \in rows}
        Before(g, h) == g.count > h.count
    IN  {Limit(seq, 10) : seq \in Orderings(groups, Before)}

statusDistribution(table) ==
    LET groups == {[status |-> b.status,
                    count |-> CountWhere(table, LAMBDA x : x.status = b.status)] : b \in table}
        Before(g, h) == g.count > h.count
    IN  Orderings(groups, Before)

topAuthors(table) ==
    LET rows == {b \in table : b.author # Null /\ b.author # <<>>}
        groups == {[author |-> b.author,
                    book_count |-> CountWhere(rows, LAMBDA x : x.author = b.author)] : b \in rows}
        Before(g, h) == g.book_count > h.book_count
    IN  {Limit(seq, 10) : seq \in Orderings(groups, Before)}

getPublicBookStats(table, accounts) ==
    {[popular_books |-> pb, popular_genres |-> pg, popular_authors |-> pa,
      status_distribution |-> sd,
      total_books |-> Cardinality(table), total_users |-> Len(accounts)] :
        pb \in popularBooks(table), pg \in popularGenres(table),
        pa \in topAuthors(table), sd \in statusDistribution(table)}

searchPublicBooks(table, query, filters) ==
    LET rows == {b \in table :
                    /\ Contains(b.title, query) \/ Contains(b.author, query)
                    /\ Truthy(filters.genre) => b.genre = filters.genre}
        groups == {[title |-> b.title, author |-> b.author, genre |-> b.genre,
                    popularity |-> CountWhere(rows,
                        LAMBDA x : /\ x.title = b.title
                                   /\ x.author = b.author
                                   /\ x.genre = b.genre)] : b \in rows}
        Before(g, h) ==
            \/ g.popularity > h.popularity
            \/ g.popularity = h.popularity /\ TextLess(g.title, h.title)
    IN  {Limit(seq, 20) : seq \in Orderings(groups, Before)}

(***************************************************************************)
(* The books router: validation chains.  A sanitizer of a chain rewrites    *)
(* the field in req.body; optional() skips the chain of an undefined field. *)
(***************************************************************************)
MsgTitleRequired == "Title is required"
MsgTitleLength == "Title must be between 1 and 255 characters"
MsgAuthorLength == "Author name must not exceed 255 characters"
MsgGenreLength == "Genre must not exceed 100 characters"
MsgStatus == "Status must be one of: to-read, reading, read"
MsgNotesLength == "Notes must not exceed 1000 characters"
MsgBookId == "Book ID must be a positive integer"

Sanitize(v) == IF v = Undefined THEN Undefined ELSE trim(v)

bookValidation(body) ==
    LET title == trim(IF body.title = Undefined THEN <<>> ELSE body.title)
        clean == [body EXCEPT !.title = title,
                              !.author = Sanitize(body.author),
                              !.genre = Sanitize(body.genre),
                              !.notes = Sanitize(body.notes)]
    IN  [body |-> clean,
         errors |->
               ErrIf(Len(title) = 0, "title", MsgTitleRequired)
            \o ErrIf(~(Len(title) >= 1 /\ Len(title) <= 255), "title", MsgTitleLength)
            \o ErrIf(clean.author # Undefined /\ Len(clean.author) > 255,
                     "author", MsgAuthorLength)
            \o ErrIf(clean.genre # Undefined /\ Len(clean.genre) > 100,
                     "genre", MsgGenreLength)
            \o ErrIf(body.status # Undefined /\ body.status \notin StatusValues,
                     "status", MsgStatus)
            \o ErrIf(clean.notes # Undefined /\ Len(clean.notes) > 1000,
                     "notes", MsgNotesLength)]

DigitSeq == <<"0","1","2","3","4","5","6","7","8","9">>

DigitValue(ch) == (CHOOSE k \in 1..Len(DigitSeq) : DigitSeq[k] = ch) - 1

Unsigned(s) == IF s # <<>> /\ s[1] \in {"-", "+"} THEN Tail(s) ELSE s

RECURSIVE DigitsValue(_)
DigitsValue(s) ==
    IF s = <<>> THEN 0
    ELSE DigitsValue(SubSeq(s, 1, Len(s) - 1)) * 10 + DigitValue(s[Len(s)])

\* parseInt of a string that isInt accepted
parseInt(s) ==
    IF s # <<>> /\ s[1] = "-" THEN 0 - DigitsValue(Unsigned(s)) ELSE DigitsValue(Unsigned(s))

\* isInt({ min }): /^[-+]?(0|[1-9][0-9]*)$/ and a value of at least min
isInt(s, min) ==
    /\ Unsigned(s) # <<>>
    /\ \A i \in 1..Len(Unsigned(s)) : Unsigned(s)[i] \in DigitChars
    /\ Len(Unsigned(s)) > 1 => Unsigned(s)[1] # "0"
    /\ parseInt(s) >= min

bookIdValidation(id) == ErrIf(~isInt(id, 1), "id", MsgBookId)

(***************************************************************************)
(* The books router: route table.  Express tries the routes in the order   *)
(* of registration and runs the first whose method and path match.         *)
(***************************************************************************)
IdParam == <<":", "i", "d">>

SegPublic == <<"p","u","b","l","i","c">>
SegSearch == <<"s","e","a","r","c","h">>

Route(method, path, handler) == [method |-> method, path |-> path, handler |-> handler]

\* a variant of Routes with /:id registered before the public routes
RoutesIdFirst ==
    << Route("GET", <<>>, "listBooks"),
       Route("POST", <<>>, "createBook"),
       Route("GET", <<IdParam>>, "getBook"),
       Route("PUT", <<IdParam>>, "updateBook"),
       Route("DELETE", <<IdParam>>, "deleteBook"),
       Route("GET", <<SegPublic>>, "publicStats"),
       Route("GET", <<SegPublic, SegSearch>>, "publicSearch") >>

Routes ==
    << Route("GET", <<SegPublic>>, "publicStats"),
       Route("GET", <<SegPublic, SegSearch>>, "publicSearch"),
       Route("GET", <<IdParam>>, "getBook"),
       Route("GET", <<>>, "listBooks"),
       Route("POST", <<>>, "createBook"),
       Route("PUT", <<IdParam>>, "updateBook"),
       Route("DELETE", <<IdParam>>, "deleteBook") >>

\* a path matches a pattern segment by segment; :id takes any one segment
PathMatches(pattern, path) ==
    /\ Len(pattern) = Len(path)
    /\ \A i \in 1..Len(path) : pattern[i] = IdParam \/ pattern[i] = path[i]

Dispatch(method, path) ==
    LET hits == {i \in 1..Len(Routes) :
                    Routes[i].method = method /\ PathMatches(Routes[i].path, path)}
    IN  IF hits = {} THEN "notFound"
        ELSE Routes[CHOOSE i \in hits : \A j \in hits : i <= j].handler

(***************************************************************************)
(* The books router: public handlers.                                      *)
(***************************************************************************)
NoBody ==
    [title |-> Undefined, author |-> Undefined, genre |-> Undefined,
     status |-> Undefined, notes |-> Undefined, user_id |-> 0]

NoQuery == [q |-> Undefined, genre |-> Undefined]

Request(method, path, body, query) ==
    [method |-> method, path |-> path, body |-> body, query |-> query]

\* GET /public
PublicStats(c, req) ==
    /\ \E stats \in getPublicBookStats(books, users) :
          last' = Record("publicStats", c, 0, req,
                         Resp(200, "",
                              [popular_books |-> stats.popular_books,
                               popular_genres |-> stats.popular_genres,
                               popular_authors |-> stats.popular_authors,
                               reading_status_distribution |-> stats.status_distribution,
                               total_books |-> stats.total_books,
                               total_users |-> stats.total_users]))
    /\ UNCHANGED <<users, books, bookSeq, sessions, clock, flight>>

\* GET /public/search
PublicSearch(c, req) ==
    /\ IF ~Truthy(req.query.q) \/ Len(trim(req.query.q)) < 2
       THEN last' = Record("publicSearch", c, 0, req,
                           Resp(400, "Search query must be at least 2 characters long",
                                NoPayload))
       ELSE \E searchResults \in searchPublicBooks(books, trim(req.query.q),
                                                   [genre |-> req.query.genre]) :
               last' = Record("publicSearch", c, 0, req,
                              Resp(200, "",
                                   [query |-> req.query.q,
                                    filters |-> [genre |-> OrElse(req.query.genre, Null)],
                                    results |-> searchResults,
                                    count |-> Len(searchResults)]))
    /\ UNCHANGED <<users, books, bookSeq, sessions, clock, flight>>

\* a request that no route matches
NotFound(c, req) ==
    /\ last' = Record("notFound", c, 0, req, Resp(404, "Route not found", NoPayload))
    /\ UNCHANGED <<users, books, bookSeq, sessions, clock, flight>>

(***************************************************************************)
(* The books router: protected handlers.  Each runs behind the gate, then   *)
(* the validation chains, then the handler body.                            *)
(***************************************************************************)
\* a variant of ownershipCheck without the ownership branch
ownershipCheckAbsent(book, userId) ==
    IF book.id = 0 THEN Resp(404, "Book not found", NoPayload)
    ELSE Resp(200, "", NoPayload)

\* a variant of ownershipCheck that compares the owner before it looks whether
\* the record exists
ownershipCheckOwnerFirst(book, userId) ==
    IF book.user_id # userId
    THEN Resp(403, "Access denied: This book belongs to another user", NoPayload)
    ELSE IF book.id = 0 THEN Resp(404, "Book not found", NoPayload)
    ELSE Resp(200, "", NoPayload)

\* if (!book) 404; if (book.user_id !== userId) 403: the two checks that
\* GET, PUT and DELETE /:id make, in this order, before touching the record
ownershipCheck(book, userId) ==
    IF book.id = 0 THEN Resp(404, "Book not found", NoPayload)
    ELSE IF book.user_id # userId
         THEN Resp(403, "Access denied: This book belongs to another user", NoPayload)
    ELSE Resp(200, "", NoPayload)

\* the helper at the end of the router file, which no handler calls
validateBookOwnership(bookId, userId) ==
    LET book == getBookById(bookId)
    IN  IF book.id = 0 THEN [valid |-> FALSE, error |-> "Book not found", status |-> 404]
        ELSE IF book.user_id # userId
             THEN [valid |-> FALSE, error |-> "Access denied", status |-> 403]
        ELSE [valid |-> TRUE, error |-> "", status |-> 200]

\* GET /:id
GetBook(gate, c, req) ==
    LET errors == bookIdValidation(req.path[1])
        userId == ReqSession(c).userId
        book == getBookById(parseInt(req.path[1]))
        check == ownershipCheck(book, userId)
    IN
    /\ last' = Record("getBook", c, 0, req,
                 IF ~gate.next THEN gate.resp
                 ELSE IF errors # <<>> THEN Resp(400, "Validation failed", errors)
                 ELSE IF check.status # 200 THEN check
                 ELSE Resp(200, "", book))
    /\ UNCHANGED <<users, books, bookSeq, sessions, clock, flight>>

\* GET /
ListBooks(gate, c, req) ==
    /\ IF ~gate.next
       THEN last' = Record("listBooks", c, 0, req, gate.resp)
       ELSE \E result \in getBooksByUserId(ReqSession(c).userId, NoFilters) :
               last' = Record("listBooks", c, 0, req, Resp(200, "", result))
    /\ UNCHANGED <<users, books, bookSeq, sessions, clock, flight>>

\* a variant of newBookData that lets a user_id of the payload through
newBookDataSpread(body, userId) ==
    [title |-> body.title,
     author |-> OrElse(body.author, Null),
     genre |-> OrElse(body.genre, Null),
     status |-> OrElse(body.status, StatusToRead),
     notes |-> OrElse(body.notes, Null),
     user_id |-> IF body.user_id # 0 THEN body.user_id ELSE userId]

\* the object POST / hands to createBook: the owner is the session's account
newBookData(body, userId) ==
    [title |-> body.title,
     author |-> OrElse(body.author, Null),
     genre |-> OrElse(body.genre, Null),
     status |-> OrElse(body.status, StatusToRead),
     notes |-> OrElse(body.notes, Null),
     user_id |-> userId]

\* POST /: the result of the validation chain is never read.  The table is
\* capped at cap rows ever inserted.
CreateBookUpTo(cap, gate, c, req) ==
    LET body == bookValidation(req.body).body
        created == createBook(newBookData(body, ReqSession(c).userId))
        book == created.book
    IN
    IF ~gate.next THEN
        /\ last' = Record("createBook", c, 0, req, gate.resp)
        /\ UNCHANGED <<users, books, bookSeq, sessions, clock, flight>>
    ELSE IF ~created.ok THEN
        /\ books' = created.table
        /\ bookSeq' = created.seq
        /\ last' = Record("createBook", c, 0, req,
                          Resp(500, "Failed to create book", NoPayload))
        /\ UNCHANGED <<users, sessions, clock, flight>>
    ELSE
        /\ bookSeq < cap
        /\ books' = created.table
        /\ bookSeq' = created.seq
        /\ last' = Record("createBook", c, 0, req,
                          Resp(201, "",
                               [id |-> book.id, title |-> book.title,
                                author |-> book.author, genre |-> book.genre,
                                status |-> book.status, notes |-> book.notes,
                                user_id |-> book.user_id,
                                created_at |-> book.created_at]))
        /\ UNCHANGED <<users, sessions, clock, flight>>

CreateBook(gate, c, req) == CreateBookUpTo(MaxBooks, gate, c, req)

\* PUT /:id
UpdateBook(gate, c, req) ==
    LET validated == bookValidation(req.body)
        errors == bookIdValidation(req.path[1]) \o validated.errors
        body == validated.body
        userId == ReqSession(c).userId
        bookId == parseInt(req.path[1])
        check == ownershipCheck(getBookById(bookId), userId)
        updateData == [title |-> trim(body.title),
                       author |-> IF Truthy(body.author) THEN trim(body.author) ELSE Null,
                       genre |-> IF Truthy(body.genre) THEN trim(body.genre) ELSE Null,
                       status |-> body.status,
                       notes |-> IF Truthy(body.notes) THEN trim(body.notes) ELSE Null]
        updated == updateBook(bookId, updateData)
    IN
    IF ~gate.next THEN
        /\ last' = Record("updateBook", c, 0, req, gate.resp)
        /\ UNCHANGED <<users, books, bookSeq, sessions, clock, flight>>
    ELSE IF errors # <<>> THEN
        /\ last' = Record("updateBook", c, 0, req, Resp(400, "Validation failed", errors))
        /\ UNCHANGED <<users, books, bookSeq, sessions, clock, flight>>
    ELSE IF check.status # 200 THEN
        /\ last' = Record("updateBook", c, 0, req, check)
        /\ UNCHANGED <<users, books, bookSeq, sessions, clock, flight>>
    ELSE IF ~updated.ok THEN
        /\ last' = Record("updateBook", c, 0, req,
                          Resp(500, "Internal server error updating book", NoPayload))
        /\ UNCHANGED <<users, books, bookSeq, sessions, clock, flight>>
    ELSE
        /\ books' = updated.table
        /\ last' = Record("updateBook", c, 0, req,
                          Resp(200, "Book updated successfully", getBookById(bookId)'))
        /\ UNCHANGED <<users, bookSeq, sessions, clock, flight>>

\* DELETE /:id
DeleteBook(gate, c, req) ==
    LET errors == bookIdValidation(req.path[1])
        userId == ReqSession(c).userId
        bookId == parseInt(req.path[1])
        check == ownershipCheck(getBookById(bookId), userId)
    IN
    IF ~gate.next THEN
        /\ last' = Record("deleteBook", c, 0, req, gate.resp)
        /\ UNCHANGED <<users, books, bookSeq, sessions, clock, flight>>
    ELSE IF errors # <<>> THEN
        /\ last' = Record("deleteBook", c, 0, req, Resp(400, "Validation failed", errors))
        /\ UNCHANGED <<users, books, bookSeq, sessions, clock, flight>>
    ELSE IF check.status # 200 THEN
        /\ last' = Record("deleteBook", c, 0, req, check)
        /\ UNCHANGED <<users, books, bookSeq, sessions, clock, flight>>
    ELSE
        /\ books' = deleteBook(bookId)
        /\ last' = Record("deleteBook", c, 0, req,
                          Resp(200, "Book deleted successfully", [deletedBookId |-> bookId]))
        /\ UNCHANGED <<users, bookSeq, sessions, clock, flight>>

(***************************************************************************)
(* The clock that CURRENT_TIMESTAMP reads.                                 *)
(***************************************************************************)
Tick ==
    /\ clock < MaxClock
    /\ clock' = clock + 1
    /\ UNCHANGED <<users, books, bookSeq, sessions, last, flight>>

(***************************************************************************)
(* Handlers step by step.  Each action below is one stretch of a handler   *)
(* between two awaits; the response ends the request, and express-session  *)
(* then stores the request's session object again (resave: true).           *)
(***************************************************************************)
FlightRecord(f, sid, resp) ==
    [Record(f.op, f.cookie, sid, f.req, resp) EXCEPT !.user = f.session.userId]

\* the end of a response: a session that was loaded from the store is set
\* again under its id, whatever happened to the store meanwhile
Resave(f) ==
    IF f.session.live THEN [sessions EXCEPT ![f.cookie] = f.session] ELSE sessions

Awaiting(s, op, pc) == flight[s].op = op /\ flight[s].pc = pc

Proceed(s, pc, loc) == flight' = [flight EXCEPT ![s].pc = pc, ![s].loc = loc]

Finish(s) == flight' = [flight EXCEPT ![s] = Idle]

\* POST /register up to await findUserByUsername: validation and the
\* strength check answer at once
RegisterArrive(s, c, body) ==
    LET errors == registerValidation(body)
        strength == checkPasswordStrength(body.password)
    IN
    /\ flight[s] = Idle
    /\ IF errors # <<>> THEN
           /\ last' = Logged(Record("register", c, 0, body,
                                    Resp(400, "Validation failed", errors)),
                             <<LogValidationErrors(errors, body)>>)
           /\ UNCHANGED flight
       ELSE IF ~strength.isStrong THEN
           /\ last' = Logged(Record("register", c, 0, body,
                                    Resp(400, "Password is too weak", strength.requirements)),
                             <<LogPayload(body), LogStrength>>)
           /\ UNCHANGED flight
       ELSE
           /\ flight' = [flight EXCEPT ![s] =
                            Flight("register", "find", c, ReqSession(c), body, <<>>)]
           /\ UNCHANGED last
    /\ UNCHANGED <<users, books, bookSeq, sessions, clock>>

\* await findUserByUsername(username), then 409 or on to bcrypt.hash
RegisterFind(s) ==
    LET f == flight[s]
        existingUser == findUserByUsername(f.req.username)
    IN
    /\ Awaiting(s, "register", "find")
    /\ IF existingUser.id # 0 THEN
           /\ last' = Logged(FlightRecord(f, 0, Resp(409, "Username already exists", NoPayload)),
                             <<LogPayload(f.req), LogStrength>>)
           /\ sessions' = Resave(f)
           /\ Finish(s)
       ELSE
           /\ Proceed(s, "hash", <<>>)
           /\ UNCHANGED <<last, sessions>>
    /\ UNCHANGED <<users, books, bookSeq, clock>>

\* await bcrypt.hash(password, saltRounds)
RegisterHash(s) ==
    /\ Awaiting(s, "register", "hash")
    /\ \E salt \in Salts : Proceed(s, "insert", bcryptHash(flight[s].req.password, salt))
    /\ UNCHANGED <<users, books, bookSeq, sessions, clock, last>>

\* await createUser(username, passwordHash), then the session and 201, or
\* the catch block and 500
RegisterInsert(s) ==
    LET f == flight[s]
        created == createUser(f.req.username, f.loc)
        data == [live |-> TRUE, userId |-> created.id, username |-> f.req.username]
    IN
    /\ Awaiting(s, "register", "insert")
    /\ IF ~created.ok THEN
           /\ last' = Logged(FlightRecord(f, 0,
                                 Resp(500, "Internal server error during registration", NoPayload)),
                             <<LogPayload(f.req), LogStrength,
                               LogEntry("Registration error:", {})>>)
           /\ sessions' = Resave(f)
           /\ UNCHANGED users
       ELSE
           /\ users' = created.table
           /\ sessions' = IF f.session.live THEN [sessions EXCEPT ![f.cookie] = data]
                          ELSE Append(sessions, data)
           /\ last' = Logged(FlightRecord(f, IF f.session.live THEN f.cookie
                                             ELSE Len(sessions) + 1,
                                 Resp(201, "User registered successfully",
                                      UserPayload(created.id, f.req.username))),
                             <<LogPayload(f.req), LogStrength>>)
    /\ Finish(s)
    /\ UNCHANGED <<books, bookSeq, clock>>

\* res.json at the end of a handler that has awaited
Respond(s, resp) ==
    /\ last' = FlightRecord(flight[s], 0, resp)
    /\ sessions' = Resave(flight[s])
    /\ Finish(s)

\* a response sent before the first await
RespondAtOnce(op, c, req, resp) ==
    /\ last' = Record(op, c, 0, req, resp)
    /\ UNCHANGED <<sessions, flight>>

BookCreated(book) ==
    Resp(201, "",
         [id |-> book.id, title |-> book.title, author |-> book.author,
          genre |-> book.genre, status |-> book.status, notes |-> book.notes,
          user_id |-> book.user_id, created_at |-> book.created_at])

\* POST / up to the INSERT of createBook: the gate, the validation chain whose
\* result is never read, and the test for missing fields
CreateArrive(s, gate, c, req) ==
    LET body == bookValidation(req.body).body
        bookData == newBookData(body, ReqSession(c).userId)
    IN
    /\ flight[s] = Idle
    /\ IF ~gate.next THEN RespondAtOnce("createBook", c, req, gate.resp)
       ELSE IF ~Truthy(bookData.title) \/ bookData.user_id = 0
       THEN RespondAtOnce("createBook", c, req, Resp(500, "Failed to create book", NoPayload))
       ELSE /\ flight' = [flight EXCEPT ![s] =
                             Flight("createBook", "insert", c, ReqSession(c), req, bookData)]
            /\ UNCHANGED <<last, sessions>>
    /\ UNCHANGED <<users, books, bookSeq, clock>>

\* await executeModifyQuery(insertSql, params): the row is in the table when
\* the promise resolves with its id
CreateInsert(s) ==
    LET created == createBook(flight[s].loc)
    IN
    /\ Awaiting(s, "createBook", "insert")
    /\ IF ~created.ok THEN
           /\ Respond(s, Resp(500, "Failed to create book", NoPayload))
           /\ UNCHANGED <<books, bookSeq>>
       ELSE
           /\ books' = created.table
           /\ bookSeq' = created.seq
           /\ Proceed(s, "fetch", created.seq)
           /\ UNCHANGED <<last, sessions>>
    /\ UNCHANGED <<users, clock>>

\* await executeQuerySingle(SELECT * FROM books WHERE id = ?): the first attempt
CreateFetch(s) ==
    LET book == getBookById(flight[s].loc)
    IN
    /\ Awaiting(s, "createBook", "fetch")
    /\ IF book.id # 0 THEN Respond(s, BookCreated(book))
       ELSE Proceed(s, "retry", flight[s].loc) /\ UNCHANGED <<last, sessions>>
    /\ UNCHANGED <<users, books, bookSeq, clock>>

\* the second attempt, 100 ms later; without a row createBook throws
CreateRetry(s) ==
    LET book == getBookById(flight[s].loc)
    IN
    /\ Awaiting(s, "createBook", "retry")
    /\ Respond(s, IF book.id # 0 THEN BookCreated(book)
                  ELSE Resp(500, "Failed to create book", NoPayload))
    /\ UNCHANGED <<users, books, bookSeq, clock>>

\* PUT /:id up to await getBookById
UpdateArrive(s, gate, c, req) ==
    LET validated == bookValidation(req.body)
        errors == bookIdValidation(req.path[1]) \o validated.errors
    IN
    /\ flight[s] = Idle
    /\ IF ~gate.next THEN RespondAtOnce("updateBook", c, req, gate.resp)
       ELSE IF errors # <<>>
       THEN RespondAtOnce("updateBook", c, req, Resp(400, "Validation failed", errors))
       ELSE /\ flight' = [flight EXCEPT ![s] =
                             Flight("updateBook", "check", c, ReqSession(c), req,
                                    validated.body)]
            /\ UNCHANGED <<last, sessions>>
    /\ UNCHANGED <<users, books, bookSeq, clock>>

\* existingBook = await getBookById(bookId), then 404, 403 or on to the UPDATE
UpdateCheck(s) ==
    LET f == flight[s]
        body == f.loc
        check == ownershipCheck(getBookById(parseInt(f.req.path[1])), f.session.userId)
        updateData == [title |-> trim(body.title),
                       author |-> IF Truthy(body.author) THEN trim(body.author) ELSE Null,
                       genre |-> IF Truthy(body.genre) THEN trim(body.genre) ELSE Null,
                       status |-> body.status,
                       notes |-> IF Truthy(body.notes) THEN trim(body.notes) ELSE Null]
    IN
    /\ Awaiting(s, "updateBook", "check")
    /\ IF check.status # 200 THEN Respond(s, check)
       ELSE Proceed(s, "write", updateData) /\ UNCHANGED <<last, sessions>>
    /\ UNCHANGED <<users, books, bookSeq, clock>>

\* await updateBook(bookId, updateData): its result, changes > 0, is not read
UpdateWrite(s) ==
    LET f == flight[s]
        updated == updateBook(parseInt(f.req.path[1]), f.loc)
    IN
    /\ Awaiting(s, "updateBook", "write")
    /\ IF ~updated.ok THEN
           /\ Respond(s, Resp(500, "Internal server error updating book", NoPayload))
           /\ UNCHANGED books
       ELSE
           /\ books' = updated.table
           /\ Proceed(s, "read", f.loc)
           /\ UNCHANGED <<last, sessions>>
    /\ UNCHANGED <<users, bookSeq, clock>>

\* updatedBook = await getBookById(bookId); res.json({ message, book: updatedBook })
UpdateRead(s) ==
    /\ Awaiting(s, "updateBook", "read")
    /\ Respond(s, Resp(200, "Book updated successfully",
                       getBookById(parseInt(flight[s].req.path[1]))))
    /\ UNCHANGED <<users, books, bookSeq, clock>>

\* DELETE /:id up to await getBookById
DeleteArrive(s, gate, c, req) ==
    LET errors == bookIdValidation(req.path[1])
    IN
    /\ flight[s] = Idle
    /\ IF ~gate.next THEN RespondAtOnce("deleteBook", c, req, gate.resp)
       ELSE IF errors # <<>>
       THEN RespondAtOnce("deleteBook", c, req, Resp(400, "Validation failed", errors))
       ELSE /\ flight' = [flight EXCEPT ![s] =
                             Flight("deleteBook", "check", c, ReqSession(c), req, <<>>)]
            /\ UNCHANGED <<last, sessions>>
    /\ UNCHANGED <<users, books, bookSeq, clock>>

\* book = await getBookById(bookId), then 404, 403 or on to the DELETE
DeleteCheck(s) ==
    LET f == flight[s]
        check == ownershipCheck(getBookById(parseInt(f.req.path[1])), f.session.userId)
    IN
    /\ Awaiting(s, "deleteBook", "check")
    /\ IF check.status # 200 THEN Respond(s, check)
       ELSE Proceed(s, "write", <<>>) /\ UNCHANGED <<last, sessions>>
    /\ UNCHANGED <<users, books, bookSeq, clock>>

\* await deleteBook(bookId), then 200
DeleteWrite(s) ==
    LET bookId == parseInt(flight[s].req.path[1])
    IN
    /\ Awaiting(s, "deleteBook", "write")
    /\ books' = deleteBook(bookId)
    /\ Respond(s, Resp(200, "Book deleted successfully", [deletedBookId |-> bookId]))
    /\ UNCHANGED <<users, bookSeq, clock>>

\* GET /public up to the first query of getPublicBookStats
StatsArrive(s, c, req) ==
    /\ flight[s] = Idle
    /\ flight' = [flight EXCEPT ![s] =
                     Flight("publicStats", "books", c, ReqSession(c), req,
                            [popular_books |-> <<>>, popular_genres |-> <<>>,
                             status_distribution |-> <<>>, popular_authors |-> <<>>,
                             total_books |-> 0, total_users |-> 0])]
    /\ UNCHANGED <<users, books, bookSeq, sessions, clock, last>>

\* one awaited query of getPublicBookStats: it reads the table as it is now
StatsQuery(s, pc, next, field, results) ==
    /\ Awaiting(s, "publicStats", pc)
    /\ \E result \in results : Proceed(s, next, [flight[s].loc EXCEPT ![field] = result])
    /\ UNCHANGED <<users, books, bookSeq, sessions, clock, last>>

StatsPopularBooks(s) ==
    StatsQuery(s, "books", "genres", "popular_books", popularBooks(books))

StatsPopularGenres(s) ==
    StatsQuery(s, "genres", "statuses", "popular_genres", popularGenres(books))

StatsStatusDistribution(s) ==
    StatsQuery(s, "statuses", "authors", "status_distribution", statusDistribution(books))

StatsTopAuthors(s) ==
    StatsQuery(s, "authors", "totalBooks", "popular_authors", topAuthors(books))

StatsTotalBooks(s) ==
    StatsQuery(s, "totalBooks", "totalUsers", "total_books", {Cardinality(books)})

\* the last query, SELECT COUNT(*) FROM users, and res.json
StatsTotalUsers(s) ==
    LET stats == flight[s].loc
    IN
    /\ Awaiting(s, "publicStats", "totalUsers")
    /\ Respond(s, Resp(200, "",
                       [popular_books |-> stats.popular_books,
                        popular_genres |-> stats.popular_genres,
                        popular_authors |-> stats.popular_authors,
                        reading_status_distribution |-> stats.status_distribution,
                        total_books |-> stats.total_books,
                        total_users |-> Len(users)]))
    /\ UNCHANGED <<users, books, bookSeq, clock>>

(***************************************************************************)
(* Request inputs of the books router.                                     *)
(***************************************************************************)
TitleDune == <<"D","u","n","e">>
TitleEmma == <<"E","m","m","a">>

\* path segments: two ids, zero, and one that is no number
IdInputs == {<<"1">>, <<"2">>, <<"0">>, <<"x">>}

IdOne == <<"1">>

Routed(req, handler) == Dispatch(req.method, req.path) = handler

(***************************************************************************)
(* Spec: the server with the gate as the source has it.                    *)
(***************************************************************************)
RegisterBodies ==
    { [username |-> u, password |-> p, confirmPassword |-> q] :
        u \in {ali, bob, <<"a","l">>},
        p \in {StrongPassword, OtherPassword},
        q \in {StrongPassword, OtherPassword} }

LoginBodies ==
    { [username |-> u, password |-> p] :
        u \in {ali, bob, <<>>}, p \in {StrongPassword, OtherPassword, <<>>} }

BookBody(title, status, owner) ==
    [NoBody EXCEPT !.title = title, !.status = status, !.user_id = owner]

Requests ==
    { Request("GET", <<SegPublic>>, NoBody, NoQuery),
      Request("GET", <<SegPublic, SegSearch>>, NoBody, [NoQuery EXCEPT !.q = TitleDune]),
      Request("GET", <<SegPublic, SegSearch>>, NoBody, NoQuery),
      Request("GET", <<>>, NoBody, NoQuery),
      Request("GET", <<IdOne>>, NoBody, NoQuery),
      Request("POST", <<>>, BookBody(TitleDune, Undefined, 0), NoQuery),
      Request("PUT", <<IdOne>>, BookBody(TitleEmma, StatusRead, 0), NoQuery),
      Request("DELETE", <<IdOne>>, NoBody, NoQuery),
      Request("DELETE", <<>>, NoBody, NoQuery) }

Init ==
    /\ users = <<>>
    /\ books = {}
    /\ bookSeq = 0
    /\ sessions = <<>>
    /\ clock = 0
    /\ last = [op |-> "none", cookie |-> 0, sid |-> 0, user |-> 0,
               req |-> NoPayload, resp |-> Resp(0, "", NoPayload), log |-> <<>>, sent |-> 0]
    /\ flight = NoFlights

Next ==
    \/ \E c \in Cookies, body \in RegisterBodies : Register(c, body)
    \/ \E c \in Cookies, body \in LoginBodies : Login(c, body)
    \/ \E c \in Cookies : Logout(c)
    \/ \E c \in Cookies : Status(c)
    \/ \E c \in Cookies : Me(requireAuth(c), c)
    \/ \E req \in Requests :
          Routed(req, "publicStats") /\ \E c \in Cookies : PublicStats(c, req)
    \/ \E req \in Requests :
          Routed(req, "publicSearch") /\ \E c \in Cookies : PublicSearch(c, req)
    \/ \E req \in Requests :
          Routed(req, "getBook") /\ \E c \in Cookies : GetBook(requireAuth(c), c, req)
    \/ \E req \in Requests :
          Routed(req, "listBooks") /\ \E c \in Cookies : ListBooks(requireAuth(c), c, req)
    \/ \E req \in Requests :
          Routed(req, "createBook") /\ \E c \in Cookies : CreateBook(requireAuth(c), c, req)
    \/ \E req \in Requests :
          Routed(req, "updateBook") /\ \E c \in Cookies : UpdateBook(requireAuth(c), c, req)
    \/ \E req \in Requests :
          Routed(req, "deleteBook") /\ \E c \in Cookies : DeleteBook(requireAuth(c), c, req)
    \/ \E req \in Requests :
          Routed(req, "notFound") /\ \E c \in Cookies : NotFound(c, req)

Spec == Init /\ [][Next]_vars

(***************************************************************************)
(* SpecBooks: the books router behind the documented gate, from a state    *)
(* in which two accounts are registered and logged in.                     *)
(***************************************************************************)
BookRequests ==
       { Request("GET", <<>>, NoBody, NoQuery),
         Request("POST", <<>>, BookBody(<<" ">>, Undefined, 0), NoQuery) }
  \cup { Request("POST", <<>>, BookBody(TitleDune, Undefined, o), NoQuery) : o \in 0..2 }
  \cup { Request("GET", <<id>>, NoBody, NoQuery) : id \in IdInputs }
  \cup { Request("DELETE", <<id>>, NoBody, NoQuery) : id \in IdInputs }
  \cup { Request("PUT", <<id>>, BookBody(t, StatusRead, 0), NoQuery) :
            id \in IdInputs, t \in {TitleEmma, <<" ">>} }

InitBooks ==
    /\ users = << [id |-> 1, username |-> ali,
                   password_hash |-> bcryptHash(StrongPassword, 1), created_at |-> 0],
                  [id |-> 2, username |-> bob,
                   password_hash |-> bcryptHash(StrongPassword, 1), created_at |-> 0] >>
    /\ sessions = << [live |-> TRUE, userId |-> 1, username |-> ali],
                     [live |-> TRUE, userId |-> 2, username |-> bob] >>
    /\ books = {}
    /\ bookSeq = 0
    /\ clock = 0
    /\ last = [op |-> "none", cookie |-> 0, sid |-> 0, user |-> 0,
               req |-> NoPayload, resp |-> Resp(0, "", NoPayload), log |-> <<>>, sent |-> 0]
    /\ flight = NoFlights

NextBooks ==
    \/ \E req \in BookRequests :
          Routed(req, "getBook") /\ \E c \in Cookies : GetBook(requireAuthDocumented(c), c, req)
    \/ \E req \in BookRequests :
          Routed(req, "listBooks") /\ \E c \in Cookies : ListBooks(requireAuthDocumented(c), c, req)
    \/ \E req \in BookRequests :
          Routed(req, "createBook") /\ \E c \in Cookies : CreateBook(requireAuthDocumented(c), c, req)
    \/ \E req \in BookRequests :
          Routed(req, "updateBook") /\ \E c \in Cookies : UpdateBook(requireAuthDocumented(c), c, req)
    \/ \E req \in BookRequests :
          Routed(req, "deleteBook") /\ \E c \in Cookies : DeleteBook(requireAuthDocumented(c), c, req)
    \/ Tick

SpecBooks == InitBooks /\ [][NextBooks]_vars

(***************************************************************************)
(* SpecRegister: POST /register on every combination of broken rules.      *)
(***************************************************************************)
AllRegisterBodies ==
    { [username |-> u, password |-> p, confirmPassword |-> q] :
        u \in UsernameInputs, p \in PasswordInputs,
        q \in {StrongPassword, OtherPassword} }
  \cup
    { [username |-> u, password |-> p, confirmPassword |-> p] :
        u \in UsernameInputs, p \in PasswordInputs }

NextRegister == \E body \in AllRegisterBodies : Register(NoCookie, body)

SpecRegister == Init /\ [][NextRegister]_vars

(***************************************************************************)
(* SpecStore: the public queries asked of every small database.  A row is   *)
(* one that POST / and PUT /:id (or db/seed.sql) can leave in the table.    *)
(***************************************************************************)
AuthorAusten == <<"A","u","s","t","e","n">>
GenreScifi == <<"s","c","i","f","i">>

StoreAccounts ==
    << [id |-> 1, username |-> ali,
        password_hash |-> bcryptHash(StrongPassword, 1), created_at |-> 0],
       [id |-> 2, username |-> bob,
        password_hash |-> bcryptHash(StrongPassword, 1), created_at |-> 0] >>

StoreRow(id, text, genre, status, owner) ==
    [id |-> id, title |-> text[1], author |-> text[2], genre |-> genre,
     status |-> status, notes |-> Null, user_id |-> owner,
     created_at |-> 0, updated_at |-> 0]

StoreRows(id, owners) ==
    { StoreRow(id, text, genre, status, owner) :
        text \in {<<TitleDune, AuthorAusten>>, <<TitleEmma, AuthorAusten>>,
                  <<TitleEmma, Null>>},
        genre \in {Null, GenreScifi},
        status \in {StatusToRead, StatusRead},
        owner \in owners }

\* the tables with rows 1 .. n, each row owned by one of the accounts
RECURSIVE Stores(_, _)
Stores(n, owners) ==
    IF n = 0 THEN {{}}
    ELSE {table \cup {row} : table \in Stores(n - 1, owners), row \in StoreRows(n, owners)}

SearchQueries ==
    { [q |-> q, genre |-> g] :
        q \in {Undefined, <<"m">>, <<"E","M">>, <<" ","u","n"," ">>, <<"_","%">>},
        g \in {Undefined, GenreScifi} }

InitStore ==
    /\ \E k \in 1..2 : users = SubSeq(StoreAccounts, 1, k)
    /\ \E n \in 0..MaxRows :
          /\ books \in Stores(n, 1..Len(users))
          /\ bookSeq = n
    /\ sessions = <<>>
    /\ clock = 0
    /\ last = [op |-> "none", cookie |-> 0, sid |-> 0, user |-> 0,
               req |-> NoPayload, resp |-> Resp(0, "", NoPayload), log |-> <<>>, sent |-> 0]
    /\ flight = NoFlights

NextStore ==
    \/ PublicStats(NoCookie, Request("GET", <<SegPublic>>, NoBody, NoQuery))
    \/ \E query \in SearchQueries :
          PublicSearch(NoCookie, Request("GET", <<SegPublic, SegSearch>>, NoBody, query))

SpecStore == InitStore /\ [][NextStore]_vars

(***************************************************************************)
(* SpecPopular: GET /public asked of tables with few and with more than     *)
(* ten (title, author) pairs: up to MaxTitles one-letter titles held once,  *)
(* and up to MaxCopies copies each of Emma by Austen, Emma without an       *)
(* author, and Dune by Austen.                                              *)
(***************************************************************************)
PopularRow(id, title, author) ==
    StoreRow(id, <<title, author>>, Null, StatusToRead, 1 + (id % 2))

PopularTable(k, n) ==
         { PopularRow(i, <<LowerSeq[i]>>, Null) : i \in 1..k }
    \cup { PopularRow(MaxTitles + i, TitleEmma, AuthorAusten) : i \in 1..n[1] }
    \cup { PopularRow(MaxTitles + MaxCopies + i, TitleEmma, Null) : i \in 1..n[2] }
    \cup { PopularRow(MaxTitles + 2 * MaxCopies + i, TitleDune, AuthorAusten) : i \in 1..n[3] }

InitPopular ==
    /\ users = StoreAccounts
    /\ \E k \in {0, MaxTitles - 3, MaxTitles - 2, MaxTitles - 1, MaxTitles},
          n \in [1..3 -> 0..MaxCopies] :
          books = PopularTable(k, n)
    /\ bookSeq = MaxTitles + 3 * MaxCopies
    /\ sessions = <<>>
    /\ clock = 0
    /\ last = [op |-> "none", cookie |-> 0, sid |-> 0, user |-> 0,
               req |-> NoPayload, resp |-> Resp(0, "", NoPayload), log |-> <<>>, sent |-> 0]
    /\ flight = NoFlights

NextPopular == PublicStats(NoCookie, Request("GET", <<SegPublic>>, NoBody, NoQuery))

SpecPopular == InitPopular /\ [][NextPopular]_vars

(***************************************************************************)
(* SpecGenres: GET /public asked of tables whose rows have one of two       *)
(* genres or none, and one of two authors or none.                          *)
(***************************************************************************)
GenreCrime == <<"c","r","i","m","e">>
AuthorHerbert == <<"H","e","r","b","e","r","t">>

GenreRows(id) ==
    { StoreRow(id, <<TitleDune, author>>, genre, StatusToRead, 1 + (id % 2)) :
        author \in {Null, AuthorAusten, AuthorHerbert},
        genre \in {Null, GenreCrime, GenreScifi} }

RECURSIVE GenreTables(_)
GenreTables(n) ==
    IF n = 0 THEN {{}}
    ELSE {table \cup {row} : table \in GenreTables(n - 1), row \in GenreRows(n)}

InitGenres ==
    /\ users = StoreAccounts
    /\ \E n \in 0..(MaxRows + 1) :
          /\ books \in GenreTables(n)
          /\ bookSeq = n
    /\ sessions = <<>>
    /\ clock = 0
    /\ last = [op |-> "none", cookie |-> 0, sid |-> 0, user |-> 0,
               req |-> NoPayload, resp |-> Resp(0, "", NoPayload), log |-> <<>>, sent |-> 0]
    /\ flight = NoFlights

NextGenres == PublicStats(NoCookie, Request("GET", <<SegPublic>>, NoBody, NoQuery))

SpecGenres == InitGenres /\ [][NextGenres]_vars

(***************************************************************************)
(* SpecShelf: the books router behind the documented gate, for the two      *)
(* logged-in accounts, with up to MaxShelf records: create, list with and   *)
(* without filters, read, update and delete.                                *)
(***************************************************************************)
ShelfBody(title, genre, status, notes) ==
    [NoBody EXCEPT !.title = title, !.genre = genre, !.status = status, !.notes = notes]

ListQuery(status, genre) ==
    [q |-> Undefined, status |-> status, genre |-> genre, search |-> Undefined]

ShelfIds == {<<"1">>, <<"2">>}

ShelfRequests ==
       { Request("GET", <<>>, NoBody, query) :
            query \in { ListQuery(Undefined, Undefined),
                        ListQuery(StatusRead, Undefined) } }
  \cup { Request("POST", <<>>, body, NoQuery) :
            body \in { ShelfBody(TitleDune, Undefined, Undefined, Undefined),
                       ShelfBody(TitleEmma, Undefined, StatusRead, Undefined) } }
  \cup { Request("GET", <<id>>, NoBody, NoQuery) : id \in ShelfIds }
  \cup { Request("DELETE", <<id>>, NoBody, NoQuery) : id \in ShelfIds }
  \cup { Request("PUT", <<id>>, body, NoQuery) :
            id \in ShelfIds,
            body \in { ShelfBody(TitleEmma, Undefined, StatusRead, Undefined),
                       ShelfBody(<<" ">>, Undefined, StatusRead, Undefined) } }

LoggedIn == {c \in Cookies : ReqSession(c).userId # 0}

NextShelf ==
    \/ \E req \in ShelfRequests :
          Routed(req, "getBook") /\ \E c \in LoggedIn : GetBook(requireAuthDocumented(c), c, req)
    \/ \E req \in ShelfRequests :
          Routed(req, "listBooks") /\ \E c \in LoggedIn : ListBooks(requireAuthDocumented(c), c, req)
    \/ \E req \in ShelfRequests :
          Routed(req, "createBook")
          /\ \E c \in LoggedIn : CreateBookUpTo(MaxShelf, requireAuthDocumented(c), c, req)
    \/ \E req \in ShelfRequests :
          Routed(req, "updateBook") /\ \E c \in LoggedIn : UpdateBook(requireAuthDocumented(c), c, req)
    \/ \E req \in ShelfRequests :
          Routed(req, "deleteBook") /\ \E c \in LoggedIn : DeleteBook(requireAuthDocumented(c), c, req)
    \/ Tick

SpecShelf == InitBooks /\ [][NextShelf]_vars

(***************************************************************************)
(* SpecRecord: one record's life behind the documented gate: create with    *)
(* valid and invalid bodies, read, update with and without a status,        *)
(* delete.                                                                  *)
(***************************************************************************)
TitleLong == [i \in 1..256 |-> "x"]
TitlePadded == <<" ","E","m","m","a"," ">>
StatusOther == <<"d","o","n","e">>
NotesSeen == <<"o","k">>

RecordRequests ==
       { Request("POST", <<>>, body, NoQuery) :
            body \in { ShelfBody(TitleDune, GenreScifi, Undefined, NotesSeen),
                       ShelfBody(TitlePadded, Undefined, StatusRead, Undefined),
                       ShelfBody(Undefined, Undefined, Undefined, Undefined),
                       ShelfBody(<<" ">>, Undefined, StatusRead, Undefined),
                       ShelfBody(TitleLong, Undefined, Undefined, Undefined),
                       ShelfBody(TitleDune, Undefined, StatusOther, Undefined) } }
  \cup { Request("GET", <<IdOne>>, NoBody, NoQuery),
         Request("DELETE", <<IdOne>>, NoBody, NoQuery) }
  \cup { Request("PUT", <<IdOne>>, body, NoQuery) :
            body \in { ShelfBody(TitlePadded, GenreScifi, StatusReading, NotesSeen),
                       ShelfBody(TitleEmma, Undefined, Undefined, Undefined),
                       ShelfBody(<<" ">>, Undefined, StatusRead, Undefined) } }

NextRecord ==
    \/ \E req \in RecordRequests :
          Routed(req, "getBook") /\ \E c \in LoggedIn : GetBook(requireAuthDocumented(c), c, req)
    \/ \E req \in RecordRequests :
          Routed(req, "createBook") /\ \E c \in LoggedIn : CreateBook(requireAuthDocumented(c), c, req)
    \/ \E req \in RecordRequests :
          Routed(req, "updateBook") /\ \E c \in LoggedIn : UpdateBook(requireAuthDocumented(c), c, req)
    \/ \E req \in RecordRequests :
          Routed(req, "deleteBook") /\ \E c \in LoggedIn : DeleteBook(requireAuthDocumented(c), c, req)
    \/ Tick

SpecRecord == InitBooks /\ [][NextRecord]_vars

(***************************************************************************)
(* SpecRace: register requests served side by side.                         *)
(***************************************************************************)
RaceBodies == {body \in RegisterBodies : body.confirmPassword = body.password}

\* a request arrives only while the session store has room for its session
RoomFor(op) ==
    Len(sessions) + Cardinality({s \in Slots : flight[s].op = op}) < MaxSessions

NextRace ==
    \/ \E s \in Slots, body \in RaceBodies :
          FreeSlot(s) /\ RoomFor("register") /\ RegisterArrive(s, NoCookie, body)
    \/ \E s \in Slots : RegisterFind(s)
    \/ \E s \in Slots : RegisterHash(s)
    \/ \E s \in Slots : RegisterInsert(s)

SpecRace == Init /\ [][NextRace]_vars

(***************************************************************************)
(* SpecFlights: creates, updates and deletes of two accounts served side    *)
(* by side behind the documented gate.                                      *)
(***************************************************************************)
FlightRequests ==
    { Request("POST", <<>>, ShelfBody(TitleDune, Undefined, Undefined, Undefined), NoQuery),
      Request("PUT", <<IdOne>>, ShelfBody(TitleEmma, Undefined, StatusRead, Undefined), NoQuery),
      Request("DELETE", <<IdOne>>, NoBody, NoQuery) }

\* a create arrives only while fewer than MaxShelf rows were or are being inserted
RoomForBook ==
    bookSeq + Cardinality({s \in Slots : Awaiting(s, "createBook", "insert")}) < MaxShelf

NextFlights ==
    \/ \E s \in Slots, req \in FlightRequests :
          /\ FreeSlot(s) /\ Routed(req, "createBook") /\ RoomForBook
          /\ \E c \in LoggedIn : CreateArrive(s, requireAuthDocumented(c), c, req)
    \/ \E s \in Slots, req \in FlightRequests :
          /\ FreeSlot(s) /\ Routed(req, "updateBook")
          /\ \E c \in LoggedIn : UpdateArrive(s, requireAuthDocumented(c), c, req)
    \/ \E s \in Slots, req \in FlightRequests :
          /\ FreeSlot(s) /\ Routed(req, "deleteBook")
          /\ \E c \in LoggedIn : DeleteArrive(s, requireAuthDocumented(c), c, req)
    \/ \E s \in Slots : CreateInsert(s)
    \/ \E s \in Slots : CreateFetch(s)
    \/ \E s \in Slots : CreateRetry(s)
    \/ \E s \in Slots : UpdateCheck(s)
    \/ \E s \in Slots : UpdateWrite(s)
    \/ \E s \in Slots : UpdateRead(s)
    \/ \E s \in Slots : DeleteCheck(s)
    \/ \E s \in Slots : DeleteWrite(s)

SpecFlights == InitBooks /\ [][NextFlights]_vars

(***************************************************************************)
(* SpecLogout: login, logout and status of two accounts, with a session     *)
(* store whose destroy may report an error.                                 *)
(***************************************************************************)
NextLogout ==
    \/ \E c \in Cookies, body \in LoginBodies : Login(c, body)
    \/ \E c \in Cookies, err \in BOOLEAN : LogoutOn(c, err)
    \/ \E c \in Cookies : Status(c)

SpecLogout == InitBooks /\ [][NextLogout]_vars

(***************************************************************************)
(* SpecStats: GET /public served query by query while the two accounts      *)
(* create and delete records.                                               *)
(***************************************************************************)
StatsRequests ==
    { Request("GET", <<SegPublic>>, NoBody, NoQuery),
      Request("POST", <<>>, ShelfBody(TitleDune, Undefined, Undefined, Undefined), NoQuery),
      Request("DELETE", <<IdOne>>, NoBody, NoQuery) }

NextStats ==
    \/ \E s \in Slots, req \in StatsRequests :
          FreeSlot(s) /\ Routed(req, "publicStats") /\ StatsArrive(s, NoCookie, req)
    \/ \E s \in Slots : StatsPopularBooks(s)
    \/ \E s \in Slots : StatsPopularGenres(s)
    \/ \E s \in Slots : StatsStatusDistribution(s)
    \/ \E s \in Slots : StatsTopAuthors(s)
    \/ \E s \in Slots : StatsTotalBooks(s)
    \/ \E s \in Slots : StatsTotalUsers(s)
    \/ \E req \in StatsRequests :
          Routed(req, "createBook")
          /\ \E c \in LoggedIn : CreateBook(requireAuthDocumented(c), c, req)
    \/ \E req \in StatsRequests :
          Routed(req, "deleteBook")
          /\ \E c \in LoggedIn : DeleteBook(requireAuthDocumented(c), c, req)

SpecStats == InitBooks /\ [][NextStats]_vars

(***************************************************************************)
(* SpecSessions: logout and status of two accounts while GET /public is     *)
(* being served with their cookies.                                         *)
(***************************************************************************)
NextSessions ==
    \/ \E s \in Slots, c \in Cookies :
          /\ FreeSlot(s)
          /\ StatsArrive(s, c, Request("GET", <<SegPublic>>, NoBody, NoQuery))
    \/ \E s \in Slots : StatsPopularBooks(s)
    \/ \E s \in Slots : StatsPopularGenres(s)
    \/ \E s \in Slots : StatsStatusDistribution(s)
    \/ \E s \in Slots : StatsTopAuthors(s)
    \/ \E s \in Slots : StatsTotalBooks(s)
    \/ \E s \in Slots : StatsTotalUsers(s)
    \/ \E c \in Cookies : Logout(c)
    \/ \E c \in Cookies : Status(c)

SpecSessions == InitBooks /\ [][NextSessions]_vars

(***************************************************************************)
(* Properties of the books router (SpecBooks).                             *)
(***************************************************************************)
SingleRecordOps == {"getBook", "updateBook", "deleteBook"}

\* the record a single-record request addresses, as the table holds it
Addressed(req) ==
    IF isInt(req.path[1], 1) THEN getBookById(parseInt(req.path[1])) ELSE NoBook

\* the validation chains of the route accept the request
PassesValidation(op, req) ==
    /\ bookIdValidation(req.path[1]) = <<>>
    /\ op = "updateBook" => bookValidation(req.body).errors = <<>>

\* a step that answers a single-record request of an account with a session
SingleRecordStep ==
    /\ clock' = clock
    /\ last'.op \in SingleRecordOps
    /\ last'.user # 0

\* a step that answers a get, update or delete an account issued for a record
\* another account owns
CrossAccountStep ==
    /\ SingleRecordStep
    /\ Addressed(last'.req).id # 0
    /\ Addressed(last'.req).user_id # last'.user

C4_Outcome(op, req, user) ==
    IF Addressed(req).id = 0 THEN 404
    ELSE IF Addressed(req).user_id # user THEN 403
    ELSE 200

ProtectedOps == {"me", "listBooks", "createBook", "getBook", "updateBook", "deleteBook"}

\* C3 as the claim states it: a request to a protected route is answered 401
\* exactly when its session holds no account id, and one whose session holds an
\* account id is passed on to the handler (it is not answered by the gate).
C3_AsStated ==
    last.op \in ProtectedOps =>
        /\ last.resp.status = 401 <=> last.user = 0
        /\ last.user # 0 => last.resp # requireAuth(last.cookie).resp

HashedFrom(username, password) ==
    \E i \in 1..Len(users), salt \in Salts :
        /\ users[i].username = username
        /\ users[i].password_hash = bcryptHash(password, salt)

\* C7: a login with the name of an account and a wrong password, and a login
\* with a name that no account has, receive the same response, 401 with the
\* text "Invalid username or password" and nothing else, and leave the session
\* store as it was.
C7_LoginFailuresAlike ==
    [][(/\ last'.op = "login"
        /\ loginValidation(last'.req) = <<>>
        /\ ~HashedFrom(last'.req.username, last'.req.password)) =>
          /\ last'.resp = Resp(401, "Invalid username or password", NoPayload)
          /\ sessions' = sessions]_vars

\* a login with the name of a registered account and a password that is not
\* the account's was answered 401
C7_Witness ==
    /\ last.op = "login"
    /\ last.resp.status = 401
    /\ \E i \in 1..Len(users) : users[i].username = last.req.username
    /\ ~HashedFrom(last.req.username, last.req.password)

\* C8: a register that passes validation and names an existing account is
\* answered 409, adds no row to users and leaves every row (id, username,
\* password hash) and the session store as they were.
C8_DuplicateRejected ==
    [][(/\ last'.op = "register"
        /\ registerValidation(last'.req) = <<>>
        /\ checkPasswordStrength(last'.req.password).isStrong
        /\ \E i \in 1..Len(users) : users[i].username = last'.req.username) =>
          /\ last'.resp.status = 409
          /\ users' = users
          /\ sessions' = sessions]_vars

\* a register for the name of an existing account was answered 409
C8_Witness ==
    /\ last.op = "register"
    /\ last.resp.status = 409
    /\ \E i \in 1..Len(users) : users[i].username = last.req.username

\* C10: a register answered 201 appends exactly one row to users, for the
\* username of the request, with a hash that verifies the password; the
\* response carries the row's id and the username and no other field (no
\* hash); GET /status asked next on the session of the response reports
\* authenticated with that id and username.
C10_RegisterEstablishesSession ==
    [][(last'.op = "register" /\ last'.resp.status = 201) =>
          /\ Len(users') = Len(users) + 1
          /\ SubSeq(users', 1, Len(users)) = users
          /\ users'[Len(users')].id = last'.resp.payload.id
          /\ users'[Len(users')].username = last'.req.username
          /\ bcryptCompare(last'.req.password, users'[Len(users')].password_hash)
          /\ DOMAIN last'.resp.payload = {"id", "username"}
          /\ last'.resp.payload.username = last'.req.username
          /\ last'.sid \in 1..Len(sessions')
          /\ \A c \in 1..Len(sessions') :
                c = last'.sid =>
                    StatusBody(c)' = [authenticated |-> TRUE,
                                      user |-> last'.resp.payload]]_vars

\* a second account was registered, on a request that carried the session of
\* the first
C10_Witness ==
    /\ last.op = "register"
    /\ last.resp.status = 201
    /\ Len(users) = 2
    /\ last.cookie # NoCookie

(***************************************************************************)
(* Properties of the public queries (SpecStore).                           *)
(***************************************************************************)
OwnerFields == {"user_id", "owner_id", "ownerId", "username", "password_hash"}

\* the table with the owner of each row replaced as f says
Reassigned(table, f) == {[b EXCEPT !.user_id = f[b.id]] : b \in table}

Reassignments == [{b.id : b \in books} -> 1..Len(users)]

NoOwnerField(rows) ==
    \A i \in 1..Len(rows) : DOMAIN rows[i] \cap OwnerFields = {}

\* C6: in every database the results of the statistics query and of the search
\* query stay the same when the rows are given to other accounts, and what
\* GET /public and GET /public/search answer is such a result, in which no
\* record has a field for an owner id or a username.
C6_PublicOutputsAnonymous ==
    /\ \A f \in Reassignments :
          /\ getPublicBookStats(Reassigned(books, f), users)
                = getPublicBookStats(books, users)
          /\ \A query \in SearchQueries :
                Truthy(query.q) =>
                    searchPublicBooks(Reassigned(books, f), trim(query.q),
                                      [genre |-> query.genre])
                        = searchPublicBooks(books, trim(query.q),
                                            [genre |-> query.genre])
    /\ (last.op = "publicStats" /\ last.resp.status = 200) =>
          /\ \E stats \in getPublicBookStats(books, users) :
                /\ last.resp.payload.popular_books = stats.popular_books
                /\ last.resp.payload.popular_genres = stats.popular_genres
                /\ last.resp.payload.popular_authors = stats.popular_authors
                /\ last.resp.payload.reading_status_distribution
                      = stats.status_distribution
          /\ DOMAIN last.resp.payload \cap OwnerFields = {}
          /\ NoOwnerField(last.resp.payload.popular_books)
          /\ NoOwnerField(last.resp.payload.popular_genres)
          /\ NoOwnerField(last.resp.payload.popular_authors)
          /\ NoOwnerField(last.resp.payload.reading_status_distribution)
    /\ (last.op = "publicSearch" /\ last.resp.status = 200) =>
          /\ last.resp.payload.results
                \in searchPublicBooks(books, trim(last.req.query.q),
                                      [genre |-> last.req.query.genre])
          /\ DOMAIN last.resp.payload \cap OwnerFields = {}
          /\ NoOwnerField(last.resp.payload.results)

\* the statistics were served from a database in which two accounts hold the
\* same title by the same author
C6_Witness ==
    /\ last.op = "publicStats"
    /\ last.resp.status = 200
    /\ \E a, b \in books :
          /\ a.user_id # b.user_id
          /\ a.title = b.title
          /\ a.author = b.author

(***************************************************************************)
(* Properties of POST /register on every input (SpecRegister).             *)
(***************************************************************************)
\* the rules of the claim that a register body breaks
ViolatedRules(body) ==
       (IF Len(body.username) < 3 \/ Len(body.username) > 30
        THEN {"username length"} ELSE {})
  \cup (IF \E i \in 1..Len(body.username) : body.username[i] \notin UsernameChars
        THEN {"username characters"} ELSE {})
  \cup (IF Len(body.password) < 6 THEN {"password length"} ELSE {})
  \cup (IF ~HasChar(body.password, LowerChars) THEN {"lowercase"} ELSE {})
  \cup (IF ~HasChar(body.password, UpperChars) THEN {"uppercase"} ELSE {})
  \cup (IF ~HasChar(body.password, DigitChars) THEN {"digit"} ELSE {})
  \cup (IF ~HasChar(body.password, SymbolChars) THEN {"symbol"} ELSE {})
  \cup (IF body.confirmPassword # body.password THEN {"confirmation"} ELSE {})

\* the rules that the detail of a 400 response names; the one message about
\* character classes counts for lowercase, uppercase and digit alike
ListedRules(resp) ==
    IF resp.text = "Validation failed" THEN
        LET msgs == {resp.payload[i].msg : i \in 1..Len(resp.payload)}
        IN     (IF MsgUsernameLength \in msgs THEN {"username length"} ELSE {})
          \cup (IF MsgUsernameChars \in msgs THEN {"username characters"} ELSE {})
          \cup (IF MsgPasswordLength \in msgs THEN {"password length"} ELSE {})
          \cup (IF MsgPasswordClasses \in msgs
                THEN {"lowercase", "uppercase", "digit"} ELSE {})
          \cup (IF MsgConfirm \in msgs THEN {"confirmation"} ELSE {})
    ELSE IF resp.text = "Password is too weak" THEN
               (IF ~resp.payload.length THEN {"password length"} ELSE {})
          \cup (IF ~resp.payload.hasLowercase THEN {"lowercase"} ELSE {})
          \cup (IF ~resp.payload.hasUppercase THEN {"uppercase"} ELSE {})
          \cup (IF ~resp.payload.hasNumber THEN {"digit"} ELSE {})
          \cup (IF ~resp.payload.hasSymbol THEN {"symbol"} ELSE {})
    ELSE {}

\* C9 as the claim states it: a register whose body breaks one or more of the
\* rules is answered 400 with a detail that names every rule it breaks, and adds
\* no account.
C9_AsStated ==
    [][(last'.op = "register" /\ ViolatedRules(last'.req) # {}) =>
          /\ last'.resp.status = 400
          /\ ViolatedRules(last'.req) \subseteq ListedRules(last'.resp)
          /\ users' = users]_vars

C12_AsStated ==
    last.op \in {"register", "login"} =>
        \A i \in DOMAIN last.log : last.req.password \notin last.log[i].values

(***************************************************************************)
(* Properties of GET / (SpecShelf).                                        *)
(***************************************************************************)
Unfiltered(req) == ~Truthy(req.query.status) /\ ~Truthy(req.query.genre)

Stored(v) == IF v = Undefined \/ trim(v) = <<>> THEN Null ELSE trim(v)

Deleted == {id \in 1..bookSeq : \A b \in books : b.id # id}

\* a step that answers a single-record request for a deleted id
DeletedIdStep ==
    /\ SingleRecordStep
    /\ isInt(last'.req.path[1], 1)
    /\ parseInt(last'.req.path[1]) \in Deleted

InvalidCreate(body) ==
    \/ body.title = Undefined
    \/ Len(trim(body.title)) = 0
    \/ Len(body.title) > 255
    \/ body.status # Undefined /\ body.status \notin StatusValues

Pairs == {<<b.title, b.author>> : b \in books}

TimesAdded(pair) ==
    Cardinality({b \in books : b.title = pair[1] /\ b.author = pair[2]})

\* pair p ranks strictly before pair q: more records, or as many and a title
\* that sorts first
RanksBefore(p, q) ==
    \/ TimesAdded(p) > TimesAdded(q)
    \/ TimesAdded(p) = TimesAdded(q) /\ TextLess(p[1], q[1])

\* C20: popular_books of GET /public has one entry per exact (title, author)
\* pair of the table, whoever owns the records (a title without an author
\* and the same title with one are two entries); an entry's times_added is
\* the number of records with exactly its pair; the entries come by
\* times_added descending, then title ascending; there are ten of them, or
\* all pairs when the table has fewer, and no pair left out ranks before a
\* listed one.
C20_PopularBooksByPair ==
    last.op = "publicStats" =>
        LET list == last.resp.payload.popular_books
            pair(i) == <<list[i].title, list[i].author>>
            listed == {pair(i) : i \in 1..Len(list)}
        IN  /\ Len(list) = IF Cardinality(Pairs) < 10 THEN Cardinality(Pairs) ELSE 10
            /\ listed \subseteq Pairs
            /\ Cardinality(listed) = Len(list)
            /\ \A i \in 1..Len(list) : list[i].times_added = TimesAdded(pair(i))
            /\ \A i, j \in 1..Len(list) : i < j => ~RanksBefore(pair(j), pair(i))
            /\ \A p \in Pairs \ listed : \A q \in listed : ~RanksBefore(p, q)

\* the table has more than ten pairs; ten are listed, Emma by Austen and
\* Emma without an author among them as two entries
C20_Witness ==
    /\ last.op = "publicStats"
    /\ Cardinality(Pairs) > 10
    /\ Len(last.resp.payload.popular_books) = 10
    /\ \E i, j \in 1..10 :
          /\ last.resp.payload.popular_books[i].title = TitleEmma
          /\ last.resp.payload.popular_books[i].author = AuthorAusten
          /\ last.resp.payload.popular_books[j].title = TitleEmma
          /\ last.resp.payload.popular_books[j].author = Null

(***************************************************************************)
(* Properties of register requests served side by side (SpecRace).         *)
(***************************************************************************)
\* the insert of slot s is refused by the UNIQUE constraint on username
LosesToUnique(s) ==
    /\ Awaiting(s, "register", "insert")
    /\ flight'[s] = Idle
    /\ ~createUser(flight[s].req.username, flight[s].loc).ok

\* C21: a register request whose INSERT loses to the uniqueness constraint
\* on username, because another request for the same unused username was
\* served at the same time, is answered 409 and not 500.
C21_AsStated == [][\A s \in Slots : LosesToUnique(s) => last'.resp.status = 409]_vars

(***************************************************************************)
(* Properties of book requests served side by side (SpecFlights).          *)
(***************************************************************************)
InTable(id) == \E b \in books : b.id = id

InTableNext(id) == \E b \in books' : b.id = id

\* slot t executes DELETE FROM books WHERE id = id in this step
DeletesNow(t, id) ==
    /\ Awaiting(t, "deleteBook", "write")
    /\ flight'[t] = Idle
    /\ parseInt(flight[t].req.path[1]) = id

RankedByCountThenName(list, name, count) ==
    /\ Len(list) <= 10
    /\ \A i \in 1..Len(list) : list[i][name] # Null /\ list[i][name] # <<>>
    /\ \A i \in 1..Len(list), j \in 1..Len(list) :
          i < j => \/ list[i][count] > list[j][count]
                   \/ /\ list[i][count] = list[j][count]
                      /\ TextLess(list[i][name], list[j][name])

\* C23: popular_genres and popular_authors of GET /public leave out records
\* without a genre (an author), hold at most 10 entries, and are ordered by
\* count descending with ties in alphabetical order, so that the table
\* determines the order.
C23_AsStated ==
    last.op = "publicStats" =>
        /\ RankedByCountThenName(last.resp.payload.popular_genres, "genre", "count")
        /\ RankedByCountThenName(last.resp.payload.popular_authors, "author", "book_count")

WritingOps == {"createBook", "updateBook", "deleteBook"}

ErrorStatuses == {400, 401, 403, 404, 500}

WritesNow(s) ==
    /\ flight[s].op \in {"updateBook", "deleteBook"}
    /\ flight[s].pc = "write"
    /\ flight'[s] # flight[s]

RECURSIVE SumOfCounts(_)
SumOfCounts(rows) ==
    IF rows = <<>> THEN 0 ELSE Head(rows).count + SumOfCounts(Tail(rows))

AuthenticatedNext(c) ==
    /\ c \in 1..Len(sessions')
    /\ sessions'[c].live
    /\ sessions'[c].userId # 0

\* C27: once logout has answered for a session, the session's cookie does
\* not authenticate again, also when a request that was being served with
\* the same session during the logout ends, and stores its session again,
\* after the session was destroyed.
C27_AsStated ==
    [][(last.op = "logout" /\ last.cookie # NoCookie)
          => ~AuthenticatedNext(last.cookie)]_vars

====
